---------------------------- MODULE Spec2Model ----------------------------
(***************************************************************************)
(* Model of the QR Code segment layer (classes QrSegment and Mode).        *)
(*                                                                         *)
(* A string is a sequence of UTF-16 code units (integers), a bit buffer a  *)
(* sequence of 0/1.  A call that throws yields err # "none" and no segment.*)
(***************************************************************************)
EXTENDS Integers, Sequences, FiniteSets, TLC

VARIABLES
  op,        \* the API call just made ("idle" between calls)
  text,      \* string argument of the call
  assignVal, \* integer argument of makeEci
  newArgs,   \* arguments of the constructor: [mode, numChars, bitData]
  ret,       \* what the call returned: [err, segs]
  answer,    \* what isNumeric / isAlphanumeric returned
  segs,      \* getTotalBits: the segment list argument
  version,   \* getTotalBits: the version argument
  total,     \* getTotalBits: the result
  heap,      \* bit arrays by reference
  callerRef, \* the array the caller passed to the constructor (0: none)
  segObj,    \* the constructed segment: [mode, numChars, bitData (a reference)]
  gotRefs,   \* arrays returned by getData() so far
  lastGot,   \* contents of the array the last getData() returned, at return
  orig       \* contents of the caller's array when the constructor ran

vars == <<op, text, assignVal, newArgs, ret, answer, segs, version, total,
          heap, callerRef, segObj, gotRefs, lastGot, orig>>

---------------------------------------------------------------------------
(* Bounds of the model *)

\* longest text over Alphabet
MaxLen == 3
\* longest all-digit text over DigitSample
MaxNumLen == 6
\* longest segment list handed to getTotalBits
MaxSegs == 2
\* longest bit array handed to the constructor
MaxBits == 2
\* number of arrays the heap can hold
MaxRefs == 3
\* ECI values tried on each side of a branch boundary
EciSpread == 2

---------------------------------------------------------------------------
(* Generic helpers *)

Min(a, b) == IF a < b THEN a ELSE b

\* All sequences over S of length 0..n
SeqUpTo(S, n) == UNION {[1..k -> S] : k \in 0..n}

\* 1 << n on 32-bit integers
ShiftLeft1(n) ==
  LET k == n % 32 IN IF k = 31 THEN (-2147483647) - 1 ELSE 2 ^ k

\* The result of a bit-buffer operation: the buffer, or the error thrown
Ok(bb) == [err |-> "none", bb |-> bb]
Threw(e) == [err |-> e, bb |-> <<>>]

---------------------------------------------------------------------------
(* utils.appendBits: appends the given number of low-order bits of the     *)
(* value, most significant first.  It throws unless val >>> len = 0; on a  *)
(* 32-bit value that is: val is not negative (bit 31 clear) and below      *)
(* 2^len.                                                                  *)

appendBits(val, len, bb) ==
  IF len < 0 \/ len > 31 \/ val < 0 \/ (len < 31 /\ val >= 2 ^ len)
  THEN Threw("RangeError")
  ELSE Ok(bb \o [i \in 1..len |-> (val \div (2 ^ (len - i))) % 2])

---------------------------------------------------------------------------
(* class Mode *)

Modes == {"NUMERIC", "ALPHANUMERIC", "BYTE", "KANJI", "ECI"}

modeBits ==
  [NUMERIC |-> 1, ALPHANUMERIC |-> 2, BYTE |-> 4, KANJI |-> 8, ECI |-> 7]

\* faulty variant: the first two BYTE widths swapped
numBitsCharCountBad ==
  [NUMERIC |-> <<10, 12, 14>>, ALPHANUMERIC |-> <<9, 11, 13>>,
   BYTE |-> <<16, 8, 16>>, KANJI |-> <<8, 10, 12>>, ECI |-> <<0, 0, 0>>]

numBitsCharCount ==
  [NUMERIC |-> <<10, 12, 14>>, ALPHANUMERIC |-> <<9, 11, 13>>,
   BYTE |-> <<8, 16, 16>>, KANJI |-> <<8, 10, 12>>, ECI |-> <<0, 0, 0>>]

\* faulty variant: the tier boundary one version late
numCharCountBitsLate(mode, ver) == numBitsCharCount[mode][((ver + 6) \div 17) + 1]

numCharCountBits(mode, ver) == numBitsCharCount[mode][((ver + 7) \div 17) + 1]

---------------------------------------------------------------------------
(* QrSegment constants *)

\* /^[0-9]*$/ : the character class
NumericClass == 48..57

\* the class with +-. read as a range
AlphanumericClassWide ==
  (65..90) \cup (48..57) \cup {32, 36, 37, 42} \cup (43..46) \cup {47, 58}

\* /^[A-Z0-9 $%*+./:-]*$/ : the character class, the final - literal
AlphanumericClass == (65..90) \cup (48..57) \cup {32, 36, 37, 42, 43, 46, 47, 58, 45}

\* "0123456789ABCDEFGHIJKLMNOPQRSTUVWXYZ $%*+-./:"
ALPHANUMERIC_CHARSET ==
  <<48, 49, 50, 51, 52, 53, 54, 55, 56, 57,
    65, 66, 67, 68, 69, 70, 71, 72, 73, 74, 75, 76, 77,
    78, 79, 80, 81, 82, 83, 84, 85, 86, 87, 88, 89, 90,
    32, 36, 37, 42, 43, 45, 46, 47, 58>>

\* String.prototype.indexOf for one character: 0-based, -1 when absent
indexOf(str, c) ==
  IF \E i \in 1..Len(str) : str[i] = c
  THEN (CHOOSE i \in 1..Len(str) : str[i] = c /\ \A j \in 1..(i - 1) : str[j] # c) - 1
  ELSE -1

isNumeric(t) == \A i \in 1..Len(t) : t[i] \in NumericClass

\* faulty variant: +-. read as a range, admitting the comma
isAlphanumericWide(t) == \A i \in 1..Len(t) : t[i] \in AlphanumericClassWide

isAlphanumeric(t) == \A i \in 1..Len(t) : t[i] \in AlphanumericClass

---------------------------------------------------------------------------
(* QrSegment constructor on values: the segment, or the error thrown *)

Segment(mode, numChars, bitData) ==
  [mode |-> mode, numChars |-> numChars, bitData |-> bitData]

Made(seg) == [err |-> "none", segs |-> <<seg>>]
Failed(e) == [err |-> e, segs |-> <<>>]

\* faulty variant: the numChars check dropped
QrSegmentUnchecked(mode, numChars, bitData) == Made(Segment(mode, numChars, bitData))

QrSegment(mode, numChars, bitData) ==
  IF numChars < 0 THEN Failed("RangeError")
  ELSE Made(Segment(mode, numChars, bitData))

---------------------------------------------------------------------------
(* makeBytes *)

RECURSIVE makeBytesLoop(_, _, _)
makeBytesLoop(data, k, r) ==
  IF k > Len(data) \/ r.err # "none" THEN r
  ELSE makeBytesLoop(data, k + 1, appendBits(data[k], 8, r.bb))

makeBytes(data) ==
  LET r == makeBytesLoop(data, 1, Ok(<<>>))
  IN IF r.err # "none" THEN Failed(r.err) ELSE QrSegment("BYTE", Len(data), r.bb)

---------------------------------------------------------------------------
(* makeNumeric *)

\* parseInt(s, 10): the value of the leading decimal digits (none: NaN, which
\* the unsigned shifts of appendBits read as 0)
RECURSIVE parseInt10(_, _, _)
parseInt10(s, k, acc) ==
  IF k > Len(s) \/ s[k] \notin 48..57 THEN acc
  ELSE parseInt10(s, k + 1, acc * 10 + (s[k] - 48))

\* faulty variant: every group written in 10 bits
RECURSIVE makeNumericLoopFixed(_, _, _)
makeNumericLoopFixed(digits, i, r) ==
  IF i >= Len(digits) \/ r.err # "none" THEN r
  ELSE LET n == Min(Len(digits) - i, 3)
       IN makeNumericLoopFixed(digits, i + n,
            appendBits(parseInt10(SubSeq(digits, i + 1, i + n), 1, 0), 10, r.bb))

RECURSIVE makeNumericLoop(_, _, _)
makeNumericLoop(digits, i, r) ==
  IF i >= Len(digits) \/ r.err # "none" THEN r
  ELSE LET n == Min(Len(digits) - i, 3)
       IN makeNumericLoop(digits, i + n,
            appendBits(parseInt10(SubSeq(digits, i + 1, i + n), 1, 0), n * 3 + 1, r.bb))

makeNumeric(digits) ==
  IF ~isNumeric(digits) THEN Failed("RangeError")
  ELSE LET r == makeNumericLoop(digits, 0, Ok(<<>>))
       IN IF r.err # "none" THEN Failed(r.err)
          ELSE QrSegment("NUMERIC", Len(digits), r.bb)

---------------------------------------------------------------------------
(* makeAlphanumeric *)

\* faulty variant: the pair weighted by 44
alnumPairBad(c1, c2) ==
  indexOf(ALPHANUMERIC_CHARSET, c1) * 44 + indexOf(ALPHANUMERIC_CHARSET, c2)

alnumPair(c1, c2) ==
  indexOf(ALPHANUMERIC_CHARSET, c1) * 45 + indexOf(ALPHANUMERIC_CHARSET, c2)

\* the for loop: processes groups of 2 from 0-based index i
RECURSIVE makeAlphanumericLoop(_, _, _)
makeAlphanumericLoop(t, i, r) ==
  IF ~(i + 2 <= Len(t)) \/ r.err # "none" THEN [i |-> i, r |-> r]
  ELSE makeAlphanumericLoop(t, i + 2, appendBits(alnumPair(t[i + 1], t[i + 2]), 11, r.bb))

makeAlphanumeric(t) ==
  IF ~isAlphanumeric(t) THEN Failed("RangeError")
  ELSE LET l == makeAlphanumericLoop(t, 0, Ok(<<>>))
           r == IF l.r.err = "none" /\ l.i < Len(t)
                THEN appendBits(indexOf(ALPHANUMERIC_CHARSET, t[l.i + 1]), 6, l.r.bb)
                ELSE l.r
       IN IF r.err # "none" THEN Failed(r.err)
          ELSE QrSegment("ALPHANUMERIC", Len(t), r.bb)

---------------------------------------------------------------------------
(* makeEci *)

\* faulty variant: the first branch taken up to 128 inclusive
makeEciOffByOne(v) ==
  LET r == IF v < 0 THEN Threw("RangeError")
           ELSE IF v <= ShiftLeft1(7) THEN appendBits(v, 8, <<>>)
           ELSE IF v < ShiftLeft1(14)
             THEN LET p == appendBits(2, 2, <<>>)
                  IN IF p.err # "none" THEN p ELSE appendBits(v, 14, p.bb)
           ELSE IF v < 1000000
             THEN LET p == appendBits(6, 3, <<>>)
                  IN IF p.err # "none" THEN p ELSE appendBits(v, 21, p.bb)
           ELSE Threw("RangeError")
  IN IF r.err # "none" THEN Failed(r.err) ELSE QrSegment("ECI", 0, r.bb)

makeEci(v) ==
  LET r == IF v < 0 THEN Threw("RangeError")
           ELSE IF v < ShiftLeft1(7) THEN appendBits(v, 8, <<>>)
           ELSE IF v < ShiftLeft1(14)
             THEN LET p == appendBits(2, 2, <<>>)
                  IN IF p.err # "none" THEN p ELSE appendBits(v, 14, p.bb)
           ELSE IF v < 1000000
             THEN LET p == appendBits(6, 3, <<>>)
                  IN IF p.err # "none" THEN p ELSE appendBits(v, 21, p.bb)
           ELSE Threw("RangeError")
  IN IF r.err # "none" THEN Failed(r.err) ELSE QrSegment("ECI", 0, r.bb)

---------------------------------------------------------------------------
(* toUtf8ByteArray: encodeURI, then the percent escapes read back as bytes *)

\* encodeURI leaves these unescaped: A-Z a-z 0-9 ; / ? : @ & = + $ , - _ . ! ~ * ' ( ) #
UriUnescaped ==
  (65..90) \cup (97..122) \cup (48..57) \cup
  {59, 47, 63, 58, 64, 38, 61, 43, 36, 44, 45, 95, 46, 33, 126, 42, 39, 40, 41, 35}

\* "0123456789ABCDEF"
HexDigits == <<48, 49, 50, 51, 52, 53, 54, 55, 56, 57, 65, 66, 67, 68, 69, 70>>

\* The UTF-8 octets of a code point
Utf8Octets(V) ==
  IF V < 128 THEN <<V>>
  ELSE IF V < 2048 THEN <<192 + (V \div 64), 128 + (V % 64)>>
  ELSE IF V < 65536
    THEN <<224 + (V \div 4096), 128 + ((V \div 64) % 64), 128 + (V % 64)>>
  ELSE <<240 + (V \div 262144), 128 + ((V \div 4096) % 64),
         128 + ((V \div 64) % 64), 128 + (V % 64)>>

RECURSIVE PercentEscape(_)
PercentEscape(octets) ==
  IF octets = <<>> THEN <<>>
  ELSE <<37, HexDigits[(Head(octets) \div 16) + 1], HexDigits[(Head(octets) % 16) + 1]>>
       \o PercentEscape(Tail(octets))

IsHighSurrogate(c) == c \in 55296..56319
IsLowSurrogate(c) == c \in 56320..57343

\* encodeURI(str) from 1-based position k: [err, str]; URIError on a lone surrogate
RECURSIVE encodeURI(_, _, _)
encodeURI(str, k, out) ==
  IF k > Len(str) THEN [err |-> "none", str |-> out]
  ELSE LET C == str[k] IN
    IF C \in UriUnescaped THEN encodeURI(str, k + 1, Append(out, C))
    ELSE IF IsLowSurrogate(C) THEN [err |-> "URIError", str |-> <<>>]
    ELSE IF ~IsHighSurrogate(C)
      THEN encodeURI(str, k + 1, out \o PercentEscape(Utf8Octets(C)))
    ELSE IF k + 1 > Len(str) \/ ~IsLowSurrogate(str[k + 1])
      THEN [err |-> "URIError", str |-> <<>>]
    ELSE encodeURI(str, k + 2,
           out \o PercentEscape(Utf8Octets(
             (C - 55296) * 1024 + (str[k + 1] - 56320) + 65536)))

\* parseInt(s, 16) of two hexadecimal digits
parseInt16(s) == indexOf(HexDigits, s[1]) * 16 + indexOf(HexDigits, s[2])

\* the for loop of toUtf8ByteArray over the encoded string, 0-based index i
RECURSIVE utf8Loop(_, _, _)
utf8Loop(str, i, result) ==
  IF ~(i < Len(str)) THEN result
  ELSE IF str[i + 1] # 37
    THEN utf8Loop(str, i + 1, Append(result, str[i + 1]))
  ELSE utf8Loop(str, i + 3, Append(result, parseInt16(SubSeq(str, i + 2, i + 3))))

\* [err, bytes]
toUtf8ByteArray(str) ==
  LET e == encodeURI(str, 1, <<>>)
  IN IF e.err # "none" THEN [err |-> e.err, bytes |-> <<>>]
     ELSE [err |-> "none", bytes |-> utf8Loop(e.str, 0, <<>>)]

---------------------------------------------------------------------------
(* makeSegments *)

makeSegments(t) ==
  IF t = <<>> THEN [err |-> "none", segs |-> <<>>]
  ELSE IF isNumeric(t) THEN makeNumeric(t)
  ELSE IF isAlphanumeric(t) THEN makeAlphanumeric(t)
  ELSE LET u == toUtf8ByteArray(t)
       IN IF u.err # "none" THEN Failed(u.err) ELSE makeBytes(u.bytes)

---------------------------------------------------------------------------
(* getTotalBits: a number of bits, or Infinity *)

Finite(n) == [inf |-> FALSE, n |-> n]
Infinity == [inf |-> TRUE, n |-> 0]

\* faulty variant: a segment whose length is exactly 2^ccbits accepted
RECURSIVE getTotalBitsLoopOff(_, _, _, _)
getTotalBitsLoopOff(ss, ver, k, result) ==
  IF k > Len(ss) THEN Finite(result)
  ELSE LET seg == ss[k]
           ccbits == numCharCountBits(seg.mode, ver)
       IN IF seg.numChars > ShiftLeft1(ccbits) THEN Infinity
          ELSE getTotalBitsLoopOff(ss, ver, k + 1, result + 4 + ccbits + Len(seg.bitData))

RECURSIVE getTotalBitsLoop(_, _, _, _)
getTotalBitsLoop(ss, ver, k, result) ==
  IF k > Len(ss) THEN Finite(result)
  ELSE LET seg == ss[k]
           ccbits == numCharCountBits(seg.mode, ver)
       IN IF seg.numChars >= ShiftLeft1(ccbits) THEN Infinity
          ELSE getTotalBitsLoop(ss, ver, k + 1, result + 4 + ccbits + Len(seg.bitData))

getTotalBits(ss, ver) == getTotalBitsLoop(ss, ver, 1, 0)

---------------------------------------------------------------------------
(* Inputs *)

\* 0 1 9 A Z : % - space , a line-feed e-acute euro-sign, and the two
\* surrogates of U+1F600
Alphabet ==
  {48, 49, 57, 65, 90, 58, 37, 45, 32, 44, 97, 10, 233, 8364, 55357, 56832}

\* 0 9
DigitSample == {48, 57}

\* "0123567" and "AC-42"
Examples == {<<48, 49, 50, 51, 53, 54, 55>>, <<65, 67, 45, 52, 50>>}

Texts ==
  SeqUpTo(Alphabet, MaxLen) \cup {<<c>> : c \in 0..255}
    \cup SeqUpTo(DigitSample, MaxNumLen) \cup Examples

EciVals ==
  {b + d : b \in {0, 128, 16384, 1000000}, d \in (-EciSpread)..EciSpread}

BitArrays == SeqUpTo({0, 1}, MaxBits)

Versions == 1..40

\* segments as callers build them: by the factories, and by the constructor
\* with lengths around the character-count field limits
SampleSegments ==
  {makeNumeric(<<49>>).segs[1], makeAlphanumeric(<<65, 58>>).segs[1],
   makeBytes(<<233>>).segs[1], makeEci(127).segs[1]}
  \cup {QrSegment(m, n, <<1, 0>>).segs[1] : m \in Modes, n \in {255, 256, 1024, 4096}}

---------------------------------------------------------------------------
(* The state between calls *)

NoRet == [err |-> "none", segs |-> <<>>]
NoArgs == [mode |-> "BYTE", numChars |-> 0, bitData |-> <<>>]
NoObj == [mode |-> "NONE", numChars |-> 0, bitData |-> 0]

Init ==
  /\ op = "idle" /\ text = <<>> /\ assignVal = 0 /\ newArgs = NoArgs
  /\ ret = NoRet /\ answer = FALSE
  /\ segs = <<>> /\ version = 1 /\ total = Finite(0)
  /\ heap = <<>> /\ callerRef = 0 /\ segObj = NoObj
  /\ gotRefs = {} /\ lastGot = <<>> /\ orig = <<>>

bitsVars == <<segs, version, total>>
heapVars == <<heap, callerRef, segObj, gotRefs, lastGot, orig>>

---------------------------------------------------------------------------
(* Spec: one call of a factory, a test or the constructor at a time *)

CallIsNumeric ==
  /\ op = "idle"
  /\ \E t \in Texts :
       op' = "isNumeric" /\ text' = t /\ answer' = isNumeric(t)
  /\ UNCHANGED <<assignVal, newArgs, ret, bitsVars, heapVars>>

CallIsAlphanumeric ==
  /\ op = "idle"
  /\ \E t \in Texts :
       op' = "isAlphanumeric" /\ text' = t /\ answer' = isAlphanumeric(t)
  /\ UNCHANGED <<assignVal, newArgs, ret, bitsVars, heapVars>>

CallMakeNumeric ==
  /\ op = "idle"
  /\ \E t \in Texts :
       op' = "makeNumeric" /\ text' = t /\ ret' = makeNumeric(t)
  /\ UNCHANGED <<assignVal, newArgs, answer, bitsVars, heapVars>>

CallMakeAlphanumeric ==
  /\ op = "idle"
  /\ \E t \in Texts :
       op' = "makeAlphanumeric" /\ text' = t /\ ret' = makeAlphanumeric(t)
  /\ UNCHANGED <<assignVal, newArgs, answer, bitsVars, heapVars>>

CallMakeSegments ==
  /\ op = "idle"
  /\ \E t \in Texts :
       op' = "makeSegments" /\ text' = t /\ ret' = makeSegments(t)
  /\ UNCHANGED <<assignVal, newArgs, answer, bitsVars, heapVars>>

CallMakeEci ==
  /\ op = "idle"
  /\ \E v \in EciVals :
       op' = "makeEci" /\ assignVal' = v /\ ret' = makeEci(v)
  /\ UNCHANGED <<text, newArgs, answer, bitsVars, heapVars>>

CallNew ==
  /\ op = "idle"
  /\ \E m \in Modes, n \in {-2, -1, 0, 1, 255, 256}, b \in BitArrays :
       /\ op' = "new"
       /\ newArgs' = [mode |-> m, numChars |-> n, bitData |-> b]
       /\ ret' = QrSegment(m, n, b)
  /\ UNCHANGED <<text, assignVal, answer, bitsVars, heapVars>>

\* the caller is done with the result
Return ==
  /\ op # "idle"
  /\ op' = "idle" /\ text' = <<>> /\ assignVal' = 0 /\ newArgs' = NoArgs
  /\ ret' = NoRet /\ answer' = FALSE
  /\ UNCHANGED <<bitsVars, heapVars>>

Next ==
  \/ CallIsNumeric \/ CallIsAlphanumeric
  \/ CallMakeNumeric \/ CallMakeAlphanumeric \/ CallMakeSegments
  \/ CallMakeEci \/ CallNew \/ Return

Spec == Init /\ [][Next]_vars

---------------------------------------------------------------------------
(* SpecBits: a caller collects segments and asks for their cost *)

PushSegment ==
  /\ op = "idle" /\ Len(segs) < MaxSegs
  /\ \E s \in SampleSegments : segs' = Append(segs, s)
  /\ UNCHANGED <<op, text, assignVal, newArgs, ret, answer, version, total, heapVars>>

CallGetTotalBits ==
  /\ op = "idle"
  /\ \E v \in Versions :
       op' = "getTotalBits" /\ version' = v /\ total' = getTotalBits(segs, v)
  /\ UNCHANGED <<text, assignVal, newArgs, ret, answer, segs, heapVars>>

CallNumCharCountBits ==
  /\ op = "idle" /\ segs = <<>>
  /\ \E m \in Modes, v \in Versions :
       /\ op' = "numCharCountBits"
       /\ newArgs' = [NoArgs EXCEPT !.mode = m]
       /\ version' = v
       /\ total' = Finite(numCharCountBits(m, v))
  /\ UNCHANGED <<text, assignVal, ret, answer, segs, heapVars>>

NextBits == PushSegment \/ CallGetTotalBits \/ CallNumCharCountBits

SpecBits == Init /\ [][NextBits]_vars

---------------------------------------------------------------------------
(* SpecAlias: the bit arrays as objects on a heap.  The caller keeps the   *)
(* array it passed to the constructor and the arrays getData() returned,   *)
(* and may change any of them.                                             *)

\* Array.prototype.slice(): a new array with the same contents
slice(h, r) ==
  LET n == CHOOSE k \in 1..MaxRefs :
             k \notin DOMAIN h /\ \A j \in 1..(k - 1) : j \in DOMAIN h
  IN [heap |-> [k \in DOMAIN h \cup {n} |-> IF k = n THEN h[r] ELSE h[k]],
      ref |-> n]

\* faulty variant: the constructor keeps the caller's array
constructorBitDataShared(h, r) == [heap |-> h, ref |-> r]

\* this.bitData = bitData.slice()
constructorBitData(h, r) == slice(h, r)

\* return this.bitData.slice()
getData(h, seg) == slice(h, seg.bitData)

\* the segment with its bit data read off the heap
Deref(h, seg) == Segment(seg.mode, seg.numChars, h[seg.bitData])

\* what a caller can do to an array it holds: push, pop, flip an element
Mutations(a) ==
  {Append(a, b) : b \in IF Len(a) < MaxBits THEN {0, 1} ELSE {}}
    \cup {SubSeq(a, 1, Len(a) - 1) : k \in IF Len(a) > 0 THEN {0} ELSE {}}
    \cup {[a EXCEPT ![i] = 1 - a[i]] : i \in 1..Len(a)}

New ==
  /\ callerRef = 0
  /\ \E m \in {"NUMERIC", "BYTE"}, n \in {-1, 3}, b \in BitArrays :
       LET h1 == [k \in {1} |-> b]
           c == constructorBitData(h1, 1)
       IN /\ op' = "new"
          /\ newArgs' = [mode |-> m, numChars |-> n, bitData |-> b]
          /\ callerRef' = 1
          /\ orig' = b
          /\ ret' = QrSegment(m, n, b)
          /\ IF QrSegment(m, n, b).err # "none"
             THEN heap' = h1 /\ segObj' = NoObj
             ELSE heap' = c.heap /\ segObj' = Segment(m, n, c.ref)
  /\ UNCHANGED <<text, assignVal, answer, bitsVars, gotRefs, lastGot>>

GetData ==
  /\ segObj # NoObj
  /\ Cardinality(DOMAIN heap) < MaxRefs
  /\ LET g == getData(heap, segObj)
     IN /\ op' = "getData"
        /\ heap' = g.heap
        /\ gotRefs' = gotRefs \cup {g.ref}
        /\ lastGot' = g.heap[g.ref]
  /\ UNCHANGED <<text, assignVal, newArgs, ret, answer, bitsVars, callerRef, segObj, orig>>

MutateCaller ==
  /\ callerRef # 0
  /\ \E a \in Mutations(heap[callerRef]) :
       heap' = [heap EXCEPT ![callerRef] = a]
  /\ op' = "mutate"
  /\ UNCHANGED <<text, assignVal, newArgs, ret, answer, bitsVars,
                 callerRef, segObj, gotRefs, lastGot, orig>>

MutateGot ==
  /\ \E r \in gotRefs : \E a \in Mutations(heap[r]) :
       heap' = [heap EXCEPT ![r] = a]
  /\ op' = "mutate"
  /\ UNCHANGED <<text, assignVal, newArgs, ret, answer, bitsVars,
                 callerRef, segObj, gotRefs, lastGot, orig>>

\* the caller drops an array getData() returned; nothing else refers to it
Release ==
  /\ \E r \in gotRefs :
       /\ gotRefs' = gotRefs \ {r}
       /\ heap' = IF r = segObj.bitData \/ r = callerRef THEN heap
                  ELSE [k \in DOMAIN heap \ {r} |-> heap[k]]
  /\ op' = "release"
  /\ UNCHANGED <<text, assignVal, newArgs, ret, answer, bitsVars,
                 callerRef, segObj, lastGot, orig>>

NextAlias == New \/ GetData \/ MutateCaller \/ MutateGot \/ Release

SpecAlias == Init /\ [][NextAlias]_vars

---------------------------------------------------------------------------
(* Properties *)

\* v written in n bits, most significant first
BitsOf(v, n) == [i \in 1..n |-> (v \div (2 ^ (n - i))) % 2]

Range(f) == {f[i] : i \in DOMAIN f}

\* the call returned exactly this segment
Returned(mode, numChars, bits) ==
  /\ ret.err = "none"
  /\ Len(ret.segs) = 1
  /\ ret.segs[1].mode = mode
  /\ ret.segs[1].numChars = numChars
  /\ ret.segs[1].bitData = bits

\* the call threw and produced nothing
Rejected == ret.err # "none" /\ ret.segs = <<>>

\* the call produced one segment and did not throw
Accepted == ret.err = "none" /\ Len(ret.segs) = 1

AllDigits(t) == \A i \in 1..Len(t) : t[i] \in 48..57

AllInCharset(t) == \A i \in 1..Len(t) : t[i] \in Range(ALPHANUMERIC_CHARSET)

\* a segment's numChars does not fit its character-count field at ver
Overflows(seg, ver) == seg.numChars >= 2 ^ numCharCountBits(seg.mode, ver)

RECURSIVE SumCost(_, _)
SumCost(ss, ver) ==
  IF ss = <<>> THEN 0
  ELSE 4 + numCharCountBits(Head(ss).mode, ver) + Len(Head(ss).bitData)
       + SumCost(Tail(ss), ver)

(* C1: getTotalBits(segs, version) is Infinity when some segment's numChars
   is at least 2^numCharCountBits(mode, version), otherwise the sum over the
   segments of 4 + numCharCountBits(mode, version) + length(bitData); it is 0
   for the empty list. *)
C1_TotalBits ==
  op = "getTotalBits" =>
    /\ (\E k \in 1..Len(segs) : Overflows(segs[k], version)) => total = Infinity
    /\ ~(\E k \in 1..Len(segs) : Overflows(segs[k], version))
         => total = Finite(SumCost(segs, version))
    /\ segs = <<>> => total = Finite(0)

C1_Witness ==
  /\ op = "getTotalBits" /\ Len(segs) = 2
  /\ ~Overflows(segs[1], version) /\ Overflows(segs[2], version)
  /\ total = Infinity

(* C2: makeNumeric throws exactly on a string with a non-digit, makeAlphanumeric
   exactly on a string with a character outside the 45-symbol charset, the
   constructor exactly on numChars < 0, makeEci exactly on a value outside
   [0, 1000000); a throwing call yields no segment, any other call yields one. *)
C2_Validation ==
  /\ op = "makeNumeric" => (Rejected <=> ~AllDigits(text))
  /\ op = "makeAlphanumeric" => (Rejected <=> ~AllInCharset(text))
  /\ op = "new" => (Rejected <=> newArgs.numChars < 0)
  /\ op = "makeEci" => (Rejected <=> assignVal \notin 0..999999)
  /\ op \in {"makeNumeric", "makeAlphanumeric", "new", "makeEci"}
       => (Rejected \/ Accepted)

C2_Witness ==
  /\ op = "new" /\ newArgs.numChars < 0 /\ newArgs.bitData # <<>>
  /\ Rejected

(* C3: makeEci(v) returns an ECI segment with numChars 0 and bit data: v in 8
   bits for 0 <= v < 128; 1,0 then v in 14 bits for 128 <= v < 16384; 1,1,0 then
   v in 21 bits for 16384 <= v < 1000000; 1000000 and -1 are rejected. *)
C3_Eci ==
  op = "makeEci" =>
    /\ (0 <= assignVal /\ assignVal < 128)
         => Returned("ECI", 0, BitsOf(assignVal, 8))
    /\ (128 <= assignVal /\ assignVal < 16384)
         => Returned("ECI", 0, <<1, 0>> \o BitsOf(assignVal, 14))
    /\ (16384 <= assignVal /\ assignVal < 1000000)
         => Returned("ECI", 0, <<1, 1, 0>> \o BitsOf(assignVal, 21))
    /\ assignVal \in {-1, 1000000} => Rejected

C3_Witness ==
  /\ op = "makeEci" /\ assignVal = 16384
  /\ ret.err = "none" /\ Len(ret.segs[1].bitData) = 24

\* the decimal value of a string of one to three digits
Dec(s) ==
  IF Len(s) = 3 THEN 100 * (s[1] - 48) + 10 * (s[2] - 48) + (s[3] - 48)
  ELSE IF Len(s) = 2 THEN 10 * (s[1] - 48) + (s[2] - 48)
  ELSE s[1] - 48

RECURSIVE NumericGroups(_)
NumericGroups(t) ==
  IF Len(t) = 0 THEN <<>>
  ELSE IF Len(t) >= 3
    THEN BitsOf(Dec(SubSeq(t, 1, 3)), 10) \o NumericGroups(SubSeq(t, 4, Len(t)))
  ELSE IF Len(t) = 2 THEN BitsOf(Dec(t), 7)
  ELSE BitsOf(Dec(t), 4)

(* C4: for a digit string of length L, makeNumeric returns a NUMERIC segment
   with numChars = L whose bit data is, from the left, each run of 3 digits as
   its decimal value in 10 bits, then a trailing 2 digits in 7 bits or 1 digit
   in 4 bits; "0123567" gives 012, 356, 7 in 10, 10, 4 bits. *)
C4_Numeric ==
  (op = "makeNumeric" /\ AllDigits(text)) =>
    /\ Returned("NUMERIC", Len(text), NumericGroups(text))
    /\ text = <<48, 49, 50, 51, 53, 54, 55>>
         => ret.segs[1].bitData = BitsOf(12, 10) \o BitsOf(356, 10) \o BitsOf(7, 4)

C4_Witness ==
  /\ op = "makeNumeric" /\ text = <<48, 49, 50, 51, 53, 54, 55>>
  /\ ret.err = "none" /\ Len(ret.segs[1].bitData) = 24

\* the position of a charset character in 0-9, A-Z, space $ % * + - . / :
CharsetIndex(c) ==
  IF c \in 48..57 THEN c - 48
  ELSE IF c \in 65..90 THEN c - 65 + 10
  ELSE CASE c = 32 -> 36 [] c = 36 -> 37 [] c = 37 -> 38 [] c = 42 -> 39
         [] c = 43 -> 40 [] c = 45 -> 41 [] c = 46 -> 42 [] c = 47 -> 43
         [] c = 58 -> 44

RECURSIVE AlphanumericGroups(_)
AlphanumericGroups(t) ==
  IF Len(t) = 0 THEN <<>>
  ELSE IF Len(t) >= 2
    THEN BitsOf(45 * CharsetIndex(t[1]) + CharsetIndex(t[2]), 11)
         \o AlphanumericGroups(SubSeq(t, 3, Len(t)))
  ELSE BitsOf(CharsetIndex(t[1]), 6)

(* C5: for a string over the alphanumeric charset, makeAlphanumeric returns an
   ALPHANUMERIC segment with numChars = length whose bit data is, in order, one
   11-bit group 45*index(c1) + index(c2) per pair and one 6-bit group index(c)
   for a trailing single character. *)
C5_Alphanumeric ==
  (op = "makeAlphanumeric" /\ AllInCharset(text)) =>
    Returned("ALPHANUMERIC", Len(text), AlphanumericGroups(text))

\* "AC-42": AC, -4 in 11 bits each, then 2 in 6 bits
C5_Witness ==
  /\ op = "makeAlphanumeric" /\ text = <<65, 67, 45, 52, 50>>
  /\ ret.err = "none"
  /\ ret.segs[1].bitData = BitsOf(462, 11) \o BitsOf(1849, 11) \o BitsOf(2, 6)

\* no unpaired surrogate
RECURSIVE WellFormed(_)
WellFormed(t) ==
  IF t = <<>> THEN TRUE
  ELSE IF IsHighSurrogate(t[1])
    THEN Len(t) >= 2 /\ IsLowSurrogate(t[2]) /\ WellFormed(SubSeq(t, 3, Len(t)))
  ELSE ~IsLowSurrogate(t[1]) /\ WellFormed(Tail(t))

\* the UTF-8 encoding of a well-formed string
RECURSIVE Utf8(_)
Utf8(t) ==
  IF t = <<>> THEN <<>>
  ELSE IF IsHighSurrogate(t[1]) /\ Len(t) >= 2
    THEN Utf8Octets((t[1] - 55296) * 1024 + (t[2] - 56320) + 65536)
         \o Utf8(SubSeq(t, 3, Len(t)))
  ELSE Utf8Octets(t[1]) \o Utf8(Tail(t))

RECURSIVE BytesBits(_)
BytesBits(bytes) ==
  IF bytes = <<>> THEN <<>> ELSE BitsOf(Head(bytes), 8) \o BytesBits(Tail(bytes))

\* makeSegments returned one BYTE segment over the UTF-8 bytes of the text
ByteSegmentOf(t) ==
  /\ Accepted
  /\ ret.segs[1].mode = "BYTE"
  /\ WellFormed(t) => /\ ret.segs[1].numChars = Len(Utf8(t))
                      /\ ret.segs[1].bitData = BytesBits(Utf8(t))

(* C6: makeSegments(text) returns no segment for the empty string, one NUMERIC
   segment for a non-empty all-digit text, one ALPHANUMERIC segment for a
   non-empty text within the charset that is not all digits, and one BYTE
   segment over the text's UTF-8 bytes in every other case; never more than
   one segment. *)
C6_MakeSegments ==
  op = "makeSegments" =>
    /\ Len(ret.segs) <= 1
    /\ text = <<>> => (ret.err = "none" /\ ret.segs = <<>>)
    /\ (text # <<>> /\ AllDigits(text))
         => Returned("NUMERIC", Len(text), NumericGroups(text))
    /\ (text # <<>> /\ ~AllDigits(text) /\ AllInCharset(text))
         => Returned("ALPHANUMERIC", Len(text), AlphanumericGroups(text))
    /\ (text # <<>> /\ ~AllDigits(text) /\ ~AllInCharset(text))
         => ByteSegmentOf(text)

(* C6 restricted to texts without an unpaired surrogate; with one,
   makeSegments throws URIError *)
MakeSegmentsWellFormed ==
  /\ (op = "makeSegments" /\ WellFormed(text)) => C6_MakeSegments
  /\ (op = "makeSegments" /\ ~WellFormed(text)) => ret = Failed("URIError")

(* C7: whatever the caller does to the array it passed to the constructor or
   to arrays getData() returned, the segment's bit data stays the sequence
   passed at construction, every getData() returns it, and getTotalBits of the
   segment is unchanged. *)
C7_NoAlias ==
  segObj # NoObj =>
    /\ heap[segObj.bitData] = orig
    /\ op = "getData" => lastGot = orig
    /\ \A v \in Versions :
         getTotalBits(<<Deref(heap, segObj)>>, v)
           = getTotalBits(<<Segment(segObj.mode, segObj.numChars, orig)>>, v)

C7_Witness ==
  /\ segObj # NoObj /\ op = "getData"
  /\ heap[callerRef] # orig
  /\ lastGot = orig /\ Len(orig) = MaxBits

(* C8: numCharCountBits(mode, version) is the mode's table entry for tier 0 on
   versions 1..9, tier 1 on 10..26, tier 2 on 27..40; floor((version+7)/17) is
   that tier; the result is in 0..16. *)
C8_Tier ==
  op = "numCharCountBits" =>
    LET tier == IF version \in 1..9 THEN 0
                ELSE IF version \in 10..26 THEN 1 ELSE 2
    IN /\ total = Finite(numBitsCharCount[newArgs.mode][tier + 1])
       /\ (version + 7) \div 17 = tier
       /\ total.n \in 0..16

C8_Witness ==
  /\ op = "numCharCountBits" /\ version = 27 /\ newArgs.mode = "BYTE"
  /\ total = Finite(16)

(* C9: isAlphanumeric(text) holds exactly when every character is in
   ALPHANUMERIC_CHARSET, and isNumeric(text) implies it; so in makeAlphanumeric
   every character index is in 0..44, every pair value in 0..2024 (11 bits) and
   every single value in 6 bits, and no append throws. *)
C9_CharsetAgrees ==
  /\ op = "isAlphanumeric" => (answer <=> AllInCharset(text))
  /\ (op = "isNumeric" /\ answer) => isAlphanumeric(text)
  /\ (op = "makeAlphanumeric" /\ isAlphanumeric(text)) =>
       /\ \A i \in 1..Len(text) : indexOf(ALPHANUMERIC_CHARSET, text[i]) \in 0..44
       /\ \A i \in 1..(Len(text) - 1) :
            /\ alnumPair(text[i], text[i + 1]) \in 0..2024
            /\ alnumPair(text[i], text[i + 1]) < 2 ^ 11
       /\ \A i \in 1..Len(text) : indexOf(ALPHANUMERIC_CHARSET, text[i]) < 2 ^ 6
       /\ ret.err = "none"

\* "::Z": the largest pair value, then a single character
C9_Witness ==
  /\ op = "makeAlphanumeric" /\ text = <<58, 58, 90>>
  /\ alnumPair(text[1], text[2]) = 2024
  /\ ret.err = "none"

(* C10: if getTotalBits(segs, v) is finite then for every version v' >= v up to
   40 getTotalBits(segs, v') is finite and at least as large; every mode's
   character-count widths are non-decreasing across the tiers. *)
C10_Monotone ==
  /\ \A m \in Modes :
       /\ numBitsCharCount[m][1] <= numBitsCharCount[m][2]
       /\ numBitsCharCount[m][2] <= numBitsCharCount[m][3]
  /\ (op = "getTotalBits" /\ ~total.inf) =>
       \A v2 \in version..40 :
         LET t2 == getTotalBits(segs, v2)
         IN ~t2.inf /\ t2.n >= total.n

C10_Witness ==
  /\ op = "getTotalBits" /\ version = 9 /\ Len(segs) = 2 /\ ~total.inf
  /\ getTotalBits(segs, 10).n > total.n

=============================================================================
